---- MODULE Spec2Model ----
(***************************************************************************)
(* Model of ImageRecorder.py: a ROS2 node that appends every image         *)
(* delivered on a topic to an in-memory list and, when the user interrupts *)
(* rclpy.spin, encodes the list into an MP4 file.                          *)
(*                                                                         *)
(* The program is single threaded: rclpy.spin runs the subscription        *)
(* callback on the main thread, and KeyboardInterrupt is raised on the     *)
(* main thread, wherever it is inside spin.  The transport (the publisher  *)
(* and the middleware queue of the subscription) runs beside it.           *)
(***************************************************************************)
EXTENDS Integers, Sequences, FiniteSets, TLC

VARIABLES
    pc,               \* position of main(): see MainPcs
    exc,              \* the exception propagating out of main's try block
    exit_status,      \* NotExited while main runs, then 0 or 1
    recording,        \* self.recording
    frames,           \* self.frames
    output_filename,  \* self.output_filename (cli_args.output)
    fps,              \* self.fps
    queue,            \* undelivered messages of the subscription
    cb_pc,            \* position of image_callback: "none", "entered", "checked"
    cb_msg,           \* the message image_callback was called with
    encoders,         \* every cv2.VideoWriter constructed, in order
    log,              \* what get_logger() was given, in order
    save_calls,       \* number of calls of save_video
    node_destroyed,   \* number of calls of destroy_node
    ctx_shutdown,     \* number of calls of rclpy.shutdown
    published,        \* history: every message the publisher sent
    dispatched,       \* history: every message handed to image_callback
    abandoned,        \* history: callbacks the interrupt cut short
    cut_at,           \* history: where image_callback was when interrupted
    last              \* history: what the last step did to the session

vars == <<pc, exc, exit_status, recording, frames, output_filename, fps, queue,
          cb_pc, cb_msg, encoders, log, save_calls, node_destroyed,
          ctx_shutdown, published, dispatched, abandoned, cut_at, last>>

----------------------------------------------------------------------------
(* Bounds of the model *)

\* messages the publisher sends in one session
MaxPub == 3

\* SpecUnit: frames already in the buffer when it starts, and the calls of
\* image_callback and save_video it makes
MaxInitFrames == 1
MaxCalls == 2

\* SpecQos: messages the publisher sends in one session, and how many of
\* them, counted from the first, may be lost before they reach the queue
MaxBurst == 12
MaxLossy == 2

(* Program constants *)

\* depth of the KEEP_LAST history of the subscription (line 41)
QosDepth == 10

\* exit_status while the process has not exited
NotExited == 0 - 1

----------------------------------------------------------------------------
(* Strings are sequences of tokens; the extension is spelled out so that   *)
(* endswith is computed, not assumed.                                      *)

MP4 == <<".", "m", "p", "4">>

\* str.endswith
EndsWith(s, suffix) ==
    /\ Len(s) >= Len(suffix)
    /\ SubSeq(s, Len(s) - Len(suffix) + 1, Len(s)) = suffix

\* an optional string: Python's None, or a str
None == [some |-> FALSE, val |-> <<>>]
Some(s) == [some |-> TRUE, val |-> s]

\* mutant of Truthy: the test is "is not None"
Truthy_IsNotNone(o) == o.some

\* truth value of an optional string: None and "" are false
Truthy(o) == o.some /\ o.val # <<>>

\* the values of -o/--output tried
OutputNames ==
    { None,
      Some(<<>>),
      Some(<<"c">>),
      Some(<<"c">> \o MP4),
      Some(MP4),
      Some(<<"c", ".", "m", "p">>),
      Some(<<"c">> \o MP4 \o <<"x">>) }

\* the values of -f/--fps tried (8 is the default)
FpsValues == {8, 25}

\* results of time.strftime("%Y%m%d-%H%M%S") tried
Timestamps == {"20250521-100000", "20250521-100001"}

----------------------------------------------------------------------------
(* Image messages and their decoding *)

\* sensor_msgs/Image, reduced to one pixel of three channels
Message(stamp, encoding, height, width, data) ==
    [stamp |-> stamp, encoding |-> encoding, height |-> height,
     width |-> width, data |-> data]

\* the kinds of message the publisher sends: (encoding, height, width, data)
MsgKinds ==
    { <<"bgr8", 1, 2, <<10, 20, 30>> >>,
      <<"rgb8", 1, 2, <<10, 20, 30>> >>,
      <<"bgr8", 2, 1, <<40, 50, 60>> >>,
      <<"32FC1", 1, 2, <<0, 0, 0>> >> }

NoMsg == Message(0, "", 0, 0, <<>>)

\* encodings CvBridge converts to bgr8
Decodable(msg) == msg.encoding \in {"bgr8", "rgb8"}

\* CvBridge.imgmsg_to_cv2(msg, desired_encoding='bgr8'): the pixel array,
\* channels reordered to B-G-R; the header is not part of the array
imgmsg_to_cv2(msg) ==
    [height |-> msg.height,
     width |-> msg.width,
     data |-> IF msg.encoding = "rgb8"
              THEN <<msg.data[3], msg.data[2], msg.data[1]>>
              ELSE msg.data]

\* the frames a buffer can hold
Frames == { imgmsg_to_cv2(Message(0, k[1], k[2], k[3], k[4])) :
            k \in {x \in MsgKinds : x[1] \in {"bgr8", "rgb8"}} }

----------------------------------------------------------------------------
(* Logging *)

LogEntry(level, text, arg) == [level |-> level, text |-> text, arg |-> arg]

\* the three lines __init__ logs
StartLog ==
    << LogEntry("info", "Started recording images from topic", <<>>),
       LogEntry("info", "Frame rate set to", <<>>),
       LogEntry("info", "Press Ctrl+C to stop and save the video.", <<>>) >>

NoFramesError == LogEntry("error", "No frames recorded!", <<>>)

----------------------------------------------------------------------------
(* save_video *)

\* mutant of OutputPath: the extension is appended without looking
OutputPath_AlwaysAppend(ofn, ts) ==
    IF Truthy(ofn) THEN ofn.val \o MP4 ELSE <<"camera_record_", ts>> \o MP4

\* the output path save_video computes (lines 76-82)
OutputPath(ofn, ts) ==
    IF Truthy(ofn)
    THEN IF EndsWith(ofn.val, MP4) THEN ofn.val ELSE ofn.val \o MP4
    ELSE <<"camera_record_", ts>> \o MP4

\* What the video encoder does, which the program does not control:
\*   open   "ok"     the writer opens and creates the file
\*          "closed" the writer does not open (isOpened() is False); cv2
\*                   reports this without raising, and writes do nothing
\*          "raise"  constructing the writer raises
\*   failAt k > 0: the k-th out.write raises; 0: no write raises
EncBehaviours(n) == [open : {"ok", "closed", "raise"}, failAt : 0..n]

\* a cv2.VideoWriter: what it was constructed with, the frames given to
\* write() so far, and whether release() was called
VideoWriter(path, f, size, isOpened, written, released) ==
    [path |-> path, fps |-> f, size |-> size, isOpened |-> isOpened,
     written |-> written, released |-> released]

\* The result of save_video is a record:
\*   frames   self.frames afterwards
\*   writers  the VideoWriter constructed, if any
\*   log      what was logged
\*   raised   whether an exception left save_video

\* mutant of save_empty: the empty buffer is reported by raising
save_empty_raise(fr) ==
    [frames |-> fr, writers |-> <<>>, log |-> <<>>, raised |-> TRUE]

\* mutant of save_empty: the error is logged but save_video goes on to open
\* a writer for the empty buffer
save_empty_writes(fr) ==
    [frames |-> fr,
     writers |-> << VideoWriter(MP4, 8, <<0, 0>>, TRUE, <<>>, TRUE) >>,
     log |-> <<NoFramesError>>,
     raised |-> FALSE]

\* lines 69-71: the buffer is empty
save_empty(fr) ==
    [frames |-> fr, writers |-> <<>>, log |-> <<NoFramesError>>,
     raised |-> FALSE]

\* mutant of save_frames: line 94 is missing, the buffer is not cleared
save_frames_NoClear(fr, ofn, f, ts, b) ==
    LET height == fr[1].height
        width == fr[1].width
        output_path == OutputPath(ofn, ts)
        opened == (b.open = "ok")
    IN  IF b.open = "raise"
        THEN [frames |-> fr, writers |-> <<>>, log |-> <<>>, raised |-> TRUE]
        ELSE IF b.failAt \in 1..Len(fr)
        THEN [frames |-> fr,
              writers |-> << VideoWriter(output_path, f, <<width, height>>,
                                opened, SubSeq(fr, 1, b.failAt - 1), FALSE) >>,
              log |-> <<>>,
              raised |-> TRUE]
        ELSE [frames |-> fr,
              writers |-> << VideoWriter(output_path, f, <<width, height>>,
                                opened, fr, TRUE) >>,
              log |-> << LogEntry("info", "Video saved to", output_path) >>,
              raised |-> FALSE]

\* lines 73-94: the buffer holds at least one frame
save_frames(fr, ofn, f, ts, b) ==
    LET height == fr[1].height
        width == fr[1].width
        output_path == OutputPath(ofn, ts)
        opened == (b.open = "ok")
    IN  IF b.open = "raise"
        THEN [frames |-> fr, writers |-> <<>>, log |-> <<>>, raised |-> TRUE]
        ELSE IF b.failAt \in 1..Len(fr)
        THEN [frames |-> fr,
              writers |-> << VideoWriter(output_path, f, <<width, height>>,
                                opened, SubSeq(fr, 1, b.failAt - 1), FALSE) >>,
              log |-> <<>>,
              raised |-> TRUE]
        ELSE [frames |-> <<>>,
              writers |-> << VideoWriter(output_path, f, <<width, height>>,
                                opened, fr, TRUE) >>,
              log |-> << LogEntry("info", "Video saved to", output_path) >>,
              raised |-> FALSE]

\* save_video (lines 68-94) on a buffer fr
save_video(fr, ofn, f, ts, b) ==
    IF fr = <<>> THEN save_empty(fr) ELSE save_frames(fr, ofn, f, ts, b)

----------------------------------------------------------------------------
(* Initial states *)

MainPcs == {"spin", "except", "save", "finally", "shutdown", "done"}

\* the state after ImageRecorder.__init__, common to both specifications
Constructed ==
    /\ exc = "none"
    /\ exit_status = NotExited
    /\ output_filename \in OutputNames
    /\ fps \in FpsValues
    /\ queue = <<>>
    /\ cb_pc = "none"
    /\ cb_msg = NoMsg
    /\ encoders = <<>>
    /\ log = StartLog
    /\ save_calls = 0
    /\ node_destroyed = 0
    /\ ctx_shutdown = 0
    /\ published = <<>>
    /\ dispatched = <<>>
    /\ abandoned = 0
    /\ cut_at = "none"
    /\ last = "init"

\* main() has constructed the recorder and enters rclpy.spin
Init ==
    /\ Constructed
    /\ pc = "spin"
    /\ recording = TRUE
    /\ frames = <<>>

----------------------------------------------------------------------------
(* The transport *)

\* mutant of Enqueue: the history keeps everything (KEEP_ALL)
Enqueue_KeepAll(q, msg) == Append(q, msg)

\* KEEP_LAST with depth 10 (lines 40-41): a message that arrives at a full
\* queue takes the place of the oldest one
Enqueue(q, msg) ==
    IF Len(q) >= QosDepth THEN Append(Tail(q), msg) ELSE Append(q, msg)

\* The publisher sends its next message, of one of the kinds kinds[stamp],
\* as long as it has sent fewer than limit.  BEST_EFFORT (line 39): the
\* message may not arrive; fates[stamp] holds TRUE when it can arrive and
\* FALSE when it can be lost.
PublishNext(kinds, fates, limit) ==
    /\ pc \in {"spin", "except", "save", "finally"}
    /\ Len(published) < limit
    /\ \E k \in kinds[Len(published) + 1],
          arrives \in fates[Len(published) + 1] :
         LET msg == Message(Len(published) + 1, k[1], k[2], k[3], k[4])
         IN  /\ published' = Append(published, msg)
             /\ queue' = IF arrives THEN Enqueue(queue, msg) ELSE queue
             /\ last' = IF arrives /\ Len(queue) >= QosDepth
                        THEN "overflow" ELSE last
    /\ UNCHANGED <<pc, exc, exit_status, recording, frames, output_filename,
                   fps, cb_pc, cb_msg, encoders, log, save_calls,
                   node_destroyed, ctx_shutdown, dispatched, abandoned,
                   cut_at>>

\* a publisher that may send any kind of message
Publish ==
    PublishNext([n \in 1..MaxPub |-> MsgKinds],
                [n \in 1..MaxPub |-> BOOLEAN],
                MaxPub)

----------------------------------------------------------------------------
(* image_callback *)

\* rclpy.spin takes the oldest undelivered message and calls image_callback
Dispatch ==
    /\ pc = "spin"
    /\ cb_pc = "none"
    /\ queue # <<>>
    /\ cb_msg' = Head(queue)
    /\ queue' = Tail(queue)
    /\ cb_pc' = "entered"
    /\ dispatched' = Append(dispatched, Head(queue))
    /\ last' = "dispatch"
    /\ UNCHANGED <<pc, exc, exit_status, recording, frames, output_filename,
                   fps, encoders, log, save_calls, node_destroyed,
                   ctx_shutdown, published, abandoned, cut_at>>

\* mutant of AppendFrame: the frame is put at the front of the list
AppendFrame_Front(fr, cv_image) == <<cv_image>> \o fr

\* line 66: self.frames.append(cv_image)
AppendFrame(fr, cv_image) == Append(fr, cv_image)

\* mutant of CallbackCheck: the flag is not looked at
CallbackCheck_NoGuard ==
    /\ cb_pc = "entered"
    /\ cb_pc' = "checked"
    /\ cb_msg' = cb_msg
    /\ last' = "callback_check"
    /\ UNCHANGED <<pc, exc, exit_status, recording, frames, output_filename,
                   fps, queue, encoders, log, save_calls, node_destroyed,
                   ctx_shutdown, published, dispatched, abandoned, cut_at>>

\* lines 61-62: return when not recording
CallbackCheck ==
    /\ cb_pc = "entered"
    /\ IF ~recording
       THEN /\ cb_pc' = "none"
            /\ cb_msg' = NoMsg
            /\ last' = "callback_discard"
       ELSE /\ cb_pc' = "checked"
            /\ cb_msg' = cb_msg
            /\ last' = "callback_check"
    /\ UNCHANGED <<pc, exc, exit_status, recording, frames, output_filename,
                   fps, queue, encoders, log, save_calls, node_destroyed,
                   ctx_shutdown, published, dispatched, abandoned, cut_at>>

\* lines 65-66: decode and append.  A message CvBridge cannot convert raises;
\* image_callback catches nothing, nor does rclpy.spin, so the exception
\* leaves spin and main's try block (no except clause matches it).
CallbackAppend ==
    /\ cb_pc = "checked"
    /\ cb_pc' = "none"
    /\ cb_msg' = NoMsg
    /\ IF Decodable(cb_msg)
       THEN /\ frames' = AppendFrame(frames, imgmsg_to_cv2(cb_msg))
            /\ last' = "callback_append"
            /\ UNCHANGED <<pc, exc>>
       ELSE /\ frames' = frames
            /\ last' = "callback_raise"
            /\ exc' = "DecodeError"
            /\ pc' = IF pc = "spin" THEN "finally" ELSE pc
    /\ UNCHANGED <<exit_status, recording, output_filename, fps, queue,
                   encoders, log, save_calls, node_destroyed, ctx_shutdown,
                   published, dispatched, abandoned, cut_at>>

----------------------------------------------------------------------------
(* main *)

\* mutant of Interrupt: the callback runs on a thread of its own and the
\* interrupt leaves it running
Interrupt_CallbackRunsOn ==
    /\ pc = "spin"
    /\ pc' = "except"
    /\ exc' = "KeyboardInterrupt"
    /\ abandoned' = abandoned
    /\ cut_at' = cb_pc
    /\ last' = "interrupt"
    /\ UNCHANGED <<exit_status, recording, frames, output_filename, fps,
                   queue, cb_pc, cb_msg, encoders, log, save_calls,
                   node_destroyed, ctx_shutdown, published, dispatched>>

\* Ctrl+C: KeyboardInterrupt is raised on the main thread inside rclpy.spin
\* (line 108), between callbacks or inside one, which it then abandons.
Interrupt ==
    /\ pc = "spin"
    /\ pc' = "except"
    /\ exc' = "KeyboardInterrupt"
    /\ cb_pc' = "none"
    /\ cb_msg' = NoMsg
    /\ abandoned' = IF cb_pc = "none" THEN abandoned ELSE abandoned + 1
    /\ cut_at' = cb_pc
    /\ last' = "interrupt"
    /\ UNCHANGED <<exit_status, recording, frames, output_filename, fps,
                   queue, encoders, log, save_calls, node_destroyed,
                   ctx_shutdown, published, dispatched>>

\* mutant of StopRecording: the flag is left set
StopRecording_KeepsFlag ==
    /\ pc = "except"
    /\ pc' = "save"
    /\ exc' = "none"
    /\ log' = Append(log, LogEntry("info", "Stopping recording and saving video...", <<>>))
    /\ last' = "stop"
    /\ UNCHANGED <<exit_status, recording, frames, output_filename, fps,
                   queue, cb_pc, cb_msg, encoders, save_calls, node_destroyed,
                   ctx_shutdown, published, dispatched, abandoned, cut_at>>

\* lines 109-111: the except clause logs and clears the flag
StopRecording ==
    /\ pc = "except"
    /\ pc' = "save"
    /\ exc' = "none"
    /\ log' = Append(log, LogEntry("info", "Stopping recording and saving video...", <<>>))
    /\ recording' = FALSE
    /\ last' = "stop"
    /\ UNCHANGED <<exit_status, frames, output_filename, fps, queue, cb_pc,
                   cb_msg, encoders, save_calls, node_destroyed, ctx_shutdown,
                   published, dispatched, abandoned, cut_at>>

\* a call of save_video, whatever the caller
CallSaveVideo ==
    \E ts \in Timestamps, b \in EncBehaviours(Len(frames)) :
       LET r == save_video(frames, output_filename, fps, ts, b)
       IN  /\ frames' = r.frames
           /\ encoders' = encoders \o r.writers
           /\ log' = log \o r.log
           /\ exc' = IF r.raised THEN "EncoderError" ELSE exc
           /\ save_calls' = save_calls + 1
           /\ last' = IF r.raised THEN "save_raise" ELSE "save_return"

\* mutant of SaveVideo: recording is enabled again once the video is saved
SaveVideo_ReEnables ==
    /\ pc = "save"
    /\ pc' = "finally"
    /\ CallSaveVideo
    /\ recording' = TRUE
    /\ UNCHANGED <<exit_status, output_filename, fps, queue, cb_pc, cb_msg,
                   node_destroyed, ctx_shutdown, published, dispatched,
                   abandoned, cut_at>>

\* line 112
SaveVideo ==
    /\ pc = "save"
    /\ pc' = "finally"
    /\ CallSaveVideo
    /\ UNCHANGED <<exit_status, recording, output_filename, fps, queue, cb_pc,
                   cb_msg, node_destroyed, ctx_shutdown, published, dispatched, abandoned,
                   cut_at>>

\* line 114
DestroyNode ==
    /\ pc = "finally"
    /\ pc' = "shutdown"
    /\ node_destroyed' = node_destroyed + 1
    /\ queue' = <<>>
    /\ last' = "destroy_node"
    /\ UNCHANGED <<exc, exit_status, recording, frames, output_filename, fps,
                   cb_pc, cb_msg, encoders, log, save_calls, ctx_shutdown,
                   published, dispatched, abandoned, cut_at>>

\* mutant of Shutdown: rclpy.shutdown() placed after the try statement, where
\* a propagating exception does not reach it
Shutdown_AfterTry ==
    /\ pc = "shutdown"
    /\ exc = "none"
    /\ pc' = "done"
    /\ ctx_shutdown' = ctx_shutdown + 1
    /\ exit_status' = 0
    /\ last' = "shutdown"
    /\ UNCHANGED <<exc, recording, frames, output_filename, fps, queue, cb_pc,
                   cb_msg, encoders, log, save_calls, node_destroyed,
                   published, dispatched, abandoned, cut_at>>

\* line 115, and the end of main: an exception still propagating leaves
\* main and the interpreter exits with status 1, otherwise with 0
Shutdown ==
    /\ pc = "shutdown"
    /\ pc' = "done"
    /\ ctx_shutdown' = ctx_shutdown + 1
    /\ exit_status' = IF exc = "none" THEN 0 ELSE 1
    /\ last' = "shutdown"
    /\ UNCHANGED <<exc, recording, frames, output_filename, fps, queue, cb_pc,
                   cb_msg, encoders, log, save_calls, node_destroyed,
                   published, dispatched, abandoned, cut_at>>

Next ==
    \/ Publish
    \/ Dispatch
    \/ CallbackCheck
    \/ CallbackAppend
    \/ Interrupt
    \/ StopRecording
    \/ SaveVideo
    \/ DestroyNode
    \/ Shutdown

Spec == Init /\ [][Next]_vars

----------------------------------------------------------------------------
(* Termination: main's own steps are taken when they can be.  The         *)
(* interpreter runs the except and finally clauses to their end; nothing   *)
(* is assumed of the publisher, of message arrival or of the user.         *)

\* one command line, since the control flow of main reads neither option
InitLive ==
    /\ Init
    /\ fps = 8
    /\ output_filename \in {None, Some(<<"c">>)}

MainProgress ==
    /\ WF_vars(CallbackCheck)
    /\ WF_vars(CallbackAppend)
    /\ WF_vars(StopRecording)
    /\ WF_vars(SaveVideo)
    /\ WF_vars(DestroyNode)
    /\ WF_vars(Shutdown)

SpecLive == InitLive /\ [][Next]_vars /\ MainProgress

----------------------------------------------------------------------------
(* A publisher faster than the recorder: enough messages to fill the       *)
(* history of the subscription, their kind fixed by their position so that *)
(* consecutive frames differ.                                              *)

BurstKinds ==
    [n \in 1..MaxBurst |->
        IF n % 3 = 1 THEN { <<"bgr8", 1, 2, <<10, 20, 30>> >> }
        ELSE IF n % 3 = 2 THEN { <<"rgb8", 1, 2, <<10, 20, 30>> >> }
        ELSE { <<"bgr8", 2, 1, <<40, 50, 60>> >> }]

\* the first MaxLossy messages of the burst may be lost on the way
BurstFates ==
    [n \in 1..MaxBurst |-> IF n <= MaxLossy THEN BOOLEAN ELSE {TRUE}]

PublishBurst == PublishNext(BurstKinds, BurstFates, MaxBurst)

InitQos ==
    /\ Init
    /\ fps = 8
    /\ output_filename = None

NextQos ==
    \/ PublishBurst
    \/ Dispatch
    \/ CallbackCheck
    \/ CallbackAppend
    \/ Interrupt
    \/ StopRecording
    \/ SaveVideo
    \/ DestroyNode
    \/ Shutdown

SpecQos == InitQos /\ [][NextQos]_vars

----------------------------------------------------------------------------
(* The methods on their own: image_callback and save_video called on a    *)
(* recorder in any state its attributes take in a session, as a caller     *)
(* other than main could.                                                  *)

\* sequences over S of length at most n
RECURSIVE SeqsUpTo(_, _)
SeqsUpTo(S, n) ==
    IF n = 0 THEN {<<>>}
    ELSE LET shorter == SeqsUpTo(S, n - 1)
         IN  shorter \cup {Append(q, x) : q \in shorter, x \in S}

InitUnit ==
    /\ Constructed
    /\ pc = "unit"
    /\ recording \in BOOLEAN
    /\ frames \in SeqsUpTo(Frames, MaxInitFrames)

\* recorder.image_callback(msg)
UnitCallImageCallback ==
    /\ pc = "unit"
    /\ cb_pc = "none"
    /\ save_calls + Len(dispatched) < MaxCalls
    /\ \E k \in MsgKinds :
         LET msg == Message(Len(dispatched) + 1, k[1], k[2], k[3], k[4])
         IN  /\ cb_msg' = msg
             /\ dispatched' = Append(dispatched, msg)
    /\ cb_pc' = "entered"
    /\ last' = "dispatch"
    /\ UNCHANGED <<pc, exc, exit_status, recording, frames, output_filename,
                   fps, queue, encoders, log, save_calls, node_destroyed,
                   ctx_shutdown, published, abandoned, cut_at>>

\* recorder.save_video()
UnitCallSaveVideo ==
    /\ pc = "unit"
    /\ cb_pc = "none"
    /\ save_calls + Len(dispatched) < MaxCalls
    /\ CallSaveVideo
    /\ UNCHANGED <<pc, exit_status, recording, output_filename, fps, queue,
                   cb_pc, cb_msg, node_destroyed, ctx_shutdown, published,
                   dispatched, abandoned, cut_at>>

NextUnit ==
    \/ UnitCallImageCallback
    \/ CallbackCheck
    \/ CallbackAppend
    \/ UnitCallSaveVideo

SpecUnit == InitUnit /\ [][NextUnit]_vars

----------------------------------------------------------------------------
(* Properties *)

IsPrefix(p, q) == Len(p) <= Len(q) /\ SubSeq(q, 1, Len(p)) = p

\* the frames given to the encoder of the session
WrittenFrames == IF encoders = <<>> THEN <<>> ELSE encoders[1].written

\* the path ends in the four characters .mp4
HasMp4Suffix(path) ==
    /\ Len(path) >= 4
    /\ path[Len(path) - 3] = "."
    /\ path[Len(path) - 2] = "m"
    /\ path[Len(path) - 1] = "p"
    /\ path[Len(path)] = "4"

\* save_video was called by main and returned
SaveReturned ==
    /\ pc \in {"finally", "shutdown", "done"}
    /\ save_calls = 1
    /\ exc = "none"

\* C1: when N valid messages were dispatched to image_callback, each callback
\* ran to its end, and the interrupt followed, a save_video that returns has
\* given the encoder exactly N frames, the i-th being the decoding of the
\* i-th dispatched message.
C1_SavedFramesAreDispatchedInOrder ==
    ( /\ SaveReturned
      /\ abandoned = 0
      /\ \A i \in 1..Len(dispatched) : Decodable(dispatched[i]) )
    => /\ Len(encoders) <= 1
       /\ Len(WrittenFrames) = Len(dispatched)
       /\ \A i \in 1..Len(dispatched) :
            WrittenFrames[i] = imgmsg_to_cv2(dispatched[i])

C1_Witness ==
    /\ SaveReturned
    /\ abandoned = 0
    /\ Len(dispatched) = 3
    /\ dispatched[1].encoding = "rgb8"
    /\ dispatched[2].height = 2
    /\ dispatched[3].encoding = "bgr8"
    /\ Len(encoders) = 1
    /\ Len(encoders[1].written) = 3

\* C2: a save_video that finds the buffer empty logs the error, constructs
\* no writer (so creates no file) and returns without raising, whatever the
\* output filename.
C2_EmptySaveOnlyLogs ==
    [][ (pc = "save" /\ pc' = "finally" /\ frames = <<>>)
        => /\ log' = Append(log, NoFramesError)
           /\ encoders' = encoders
           /\ frames' = <<>>
           /\ exc' = "none"
           /\ last' = "save_return" ]_vars

C2_Witness ==
    /\ pc = "finally"
    /\ last = "save_return"
    /\ output_filename = Some(<<"c">>)
    /\ dispatched = <<>>
    /\ encoders = <<>>
    /\ log[Len(log)] = NoFramesError

\* C3: in every run that reaches termination save_video was called exactly
\* once, whatever ended the spin loop.
C3_SavedExactlyOnce == (pc = "done") => (save_calls = 1)

\* C4: with a non-empty output filename, the path given to the encoder is
\* the filename when it ends in .mp4 and the filename followed by .mp4
\* otherwise; it ends in .mp4, and normalising it again changes nothing.
C4_PathNormalised ==
    \A i \in 1..Len(encoders) :
       Truthy(output_filename) =>
          LET name == output_filename.val
              path == encoders[i].path
          IN  /\ HasMp4Suffix(name) => path = name
              /\ ~HasMp4Suffix(name) => path = name \o MP4
              /\ HasMp4Suffix(path)
              /\ \A ts \in Timestamps : OutputPath(Some(path), ts) = path

C4_Witness ==
    /\ Len(encoders) = 1
    /\ output_filename = Some(<<"c", ".", "m", "p">>)
    /\ encoders[1].path = <<"c", ".", "m", "p", ".", "m", "p", "4">>

\* C5: a session creates at most one video file, only in the save that
\* follows the interrupt (never while recording is enabled) and only when
\* the buffer is not empty then.
C5_OneFileAtSave ==
    /\ [](Len(encoders) <= 1)
    /\ [](recording => encoders = <<>>)
    /\ [][ encoders' # encoders
           => (pc = "save" /\ ~recording /\ frames # <<>>) ]_vars

C5_Witness ==
    /\ pc = "done"
    /\ ~recording
    /\ Len(encoders) = 1
    /\ encoders[1].isOpened
    /\ encoders[1].released

\* C6: after an interrupt main exits with status 0 whatever the save did.
C6_ExitZeroAfterSave == (pc = "done" /\ save_calls > 0) => (exit_status = 0)

\* C7: image_callback entered with recording false returns at once: nothing
\* is decoded (an undecodable message raises nothing) and no attribute of
\* the session changes.
C7_CallbackNoOpWhenStopped ==
    [][ (cb_pc = "entered" /\ ~recording)
        => /\ cb_pc' = "none"
           /\ UNCHANGED <<frames, recording, output_filename, fps, encoders,
                          log, exc, pc>> ]_vars

C7_Witness ==
    /\ last = "callback_discard"
    /\ ~recording
    /\ frames # <<>>
    /\ exc = "none"
    /\ ~Decodable(dispatched[Len(dispatched)])

\* C8: after a decode failure in image_callback recording is still enabled
\* and the session goes on: main is still in the spin loop, where later
\* messages are dispatched.
C8_SessionSurvivesDecodeFailure ==
    (last = "callback_raise") => (recording /\ pc = "spin")

\* C9: a session that has left the spin loop terminates; the node is
\* destroyed once, then the context is shut down once, on every path; and
\* nothing is released before a save that runs has ended.
C9_ReleasedOnEveryPath ==
    /\ (pc # "spin") ~> (pc = "done")
    /\ [](pc = "done" => (node_destroyed = 1 /\ ctx_shutdown = 1))
    /\ [](ctx_shutdown <= node_destroyed /\ node_destroyed <= 1)
    /\ [](pc \in {"except", "save"} => node_destroyed = 0)
    /\ [][ save_calls' # save_calls => node_destroyed' = 0 ]_vars

C9_Witness ==
    /\ pc = "done"
    /\ exc = "EncoderError"
    /\ save_calls = 1
    /\ node_destroyed = 1
    /\ ctx_shutdown = 1

\* C10: a step taken while recording is true leaves the old buffer a prefix
\* of the new one; the buffer is emptied only with recording false.
C10_AppendOnlyWhileRecording ==
    /\ [][ recording => IsPrefix(frames, frames') ]_vars
    /\ [][ (frames # <<>> /\ frames' = <<>>) => ~recording ]_vars

C10_Witness ==
    /\ last = "callback_append"
    /\ recording
    /\ Len(frames) = 3
    /\ frames[1] # frames[2]

\* the interrupt arrived while a callback had passed the recording check and
\* had not yet appended
InterruptedPastCheck == cut_at = "checked"

\* C11 (as claimed): a callback that passed the check before the interrupt
\* may still append once the flag is false: where the interrupt found such a
\* callback and the flag has been cleared, its append can still be taken.
C11_AppendPossibleAfterStop ==
    (InterruptedPastCheck /\ ~recording /\ pc = "save")
    => ENABLED CallbackAppend

\* C11 (amended): the interrupt abandons the callback it finds, so no
\* callback is in progress once the flag is false, the buffer never grows
\* with the flag false, and the buffer save_video is called on is the buffer
\* of the moment the flag was cleared.
C11_NoAppendAfterStop ==
    /\ [](~recording => cb_pc = "none")
    /\ [][ ~recording => Len(frames') <= Len(frames) ]_vars
    /\ [][ (recording /\ ~recording') => frames' = frames ]_vars
    /\ [][ (pc = "save" /\ pc' = "save") => frames' = frames ]_vars

C11_Witness ==
    /\ InterruptedPastCheck
    /\ ~recording
    /\ pc = "save"
    /\ Len(dispatched) = 2
    /\ Decodable(dispatched[2])
    /\ Len(frames) = 1

\* C12: on the interrupt path the flag is false before save_video starts,
\* save_video has ended before the node is released, and the flag is never
\* set again: it is true as long as main is in spin and false from the
\* except clause's assignment on.
C12_StopThenSaveThenRelease ==
    /\ [](pc = "spin" => recording)
    /\ [](pc = "save" => (~recording /\ save_calls = 0 /\ node_destroyed = 0))
    /\ [](save_calls > 0 => ~recording)
    /\ []((~recording /\ node_destroyed > 0) => save_calls = 1)
    /\ [][ save_calls' # save_calls
           => (~recording /\ node_destroyed = 0 /\ node_destroyed' = 0) ]_vars
    /\ [][ ~recording => ~recording' ]_vars

C12_Witness ==
    /\ pc = "done"
    /\ ~recording
    /\ save_calls = 1
    /\ Len(encoders) = 1
    /\ node_destroyed = 1
    /\ last = "shutdown"

\* C13: when save_video has returned the buffer is empty, whether it wrote
\* a file or found nothing to write; a save_video called next, with no
\* callback in between, constructs no writer and only logs the error.
C13_SaveLeavesBufferEmpty ==
    /\ [](last = "save_return" => frames = <<>>)
    /\ [][ (last = "save_return" /\ save_calls' = save_calls + 1)
           => /\ encoders' = encoders
              /\ frames' = <<>>
              /\ log' = Append(log, NoFramesError)
              /\ last' = "save_return" ]_vars

C13_Witness ==
    /\ pc = "unit"
    /\ save_calls = 2
    /\ last = "save_return"
    /\ frames = <<>>
    /\ Len(encoders) = 1
    /\ encoders[1].isOpened
    /\ Len(encoders[1].written) = 1
    /\ log[Len(log)] = NoFramesError

\* C14: the frames of the buffer all have the height and width of the first
\* one, and every frame given to an encoder has the size it was opened with.
C14_FramesShareDimensions ==
    /\ \A i \in 1..Len(frames) :
          /\ frames[i].height = frames[1].height
          /\ frames[i].width = frames[1].width
    /\ \A e \in 1..Len(encoders) :
          \A j \in 1..Len(encoders[e].written) :
             <<encoders[e].written[j].width, encoders[e].written[j].height>>
                = encoders[e].size

\* the name save_video makes up from the clock
IsTimestampName(path) ==
    \E ts \in Timestamps : path = <<"camera_record_", ts>> \o MP4

\* C15 (as claimed): whatever string was given as output filename, the
\* empty one included, the path is that string or that string followed by
\* .mp4; the timestamp name is used only when no filename was given.
C15_EveryGivenNameIsUsed ==
    \A i \in 1..Len(encoders) :
       LET path == encoders[i].path
       IN  /\ output_filename.some
              => path \in {output_filename.val, output_filename.val \o MP4}
           /\ IsTimestampName(path) => ~output_filename.some

\* C15 (amended): a non-empty output filename is what the path is derived
\* from; the timestamp name is used when no filename was given and also
\* when the empty string was given.
C15_NonEmptyNameIsUsed ==
    \A i \in 1..Len(encoders) :
       LET path == encoders[i].path
       IN  IF output_filename.some /\ Len(output_filename.val) > 0
           THEN /\ path \in {output_filename.val, output_filename.val \o MP4}
                /\ ~IsTimestampName(path)
           ELSE IsTimestampName(path)

C15_Witness ==
    /\ output_filename = Some(<<>>)
    /\ Len(encoders) = 1
    /\ IsTimestampName(encoders[1].path)

\* the decodings of a sequence of messages, in order
Decoded(msgs) == [i \in 1..Len(msgs) |-> imgmsg_to_cv2(msgs[i])]

\* messages in the order the publisher sent them, none twice
InPublicationOrder(msgs) ==
    /\ \A i \in 1..Len(msgs) :
          /\ msgs[i].stamp \in 1..Len(published)
          /\ published[msgs[i].stamp] = msgs[i]
    /\ \A i \in 1..(Len(msgs) - 1) : msgs[i].stamp < msgs[i + 1].stamp

\* C16: the queue of undelivered messages never holds more than 10; a
\* message arriving at a full queue displaces the oldest; the messages
\* dispatched, then those still queued, are published messages in
\* publication order; and the recorded frames, in the buffer or given to
\* the encoder, are the decodings of the first dispatched messages in that
\* order: frames can be missing, none is out of order or repeated.
C16_RecordedInPublicationOrder ==
    /\ [](Len(queue) <= QosDepth)
    /\ [](InPublicationOrder(dispatched \o queue))
    /\ [](IsPrefix(frames, Decoded(dispatched)))
    /\ [](\A e \in 1..Len(encoders) :
            IsPrefix(encoders[e].written, Decoded(dispatched)))
    /\ [][ (Len(queue) = QosDepth /\ queue' # queue /\ published' # published)
           => queue' = Append(Tail(queue), published'[Len(published')]) ]_vars

C16_Witness ==
    /\ last = "overflow"
    /\ Len(published) = 12
    /\ Len(queue) = QosDepth
    /\ queue[1].stamp = 3
    /\ queue[QosDepth].stamp = 12
    /\ Len(dispatched) = 1
    /\ frames = <<imgmsg_to_cv2(published[1])>>

====
